---- MODULE Spec2Model ----
(***************************************************************************)
(* Model of server/scripts/analyze-frames.py: the ANSI frame analyzer.     *)
(*                                                                         *)
(* A text line is a sequence of characters, each character a one-element   *)
(* string except ESC, which stands for the byte \x1b.  The standard output *)
(* is the sequence of physical lines printed so far, each a record tagged  *)
(* by its kind; the numeric fields of a report line are kept as numbers    *)
(* (the padding of the format specifiers is not modelled).                 *)
(***************************************************************************)
EXTENDS Naturals, Sequences, FiniteSets

VARIABLES argv, fs, files, fi, pc, handles, lines, i, exc, out

vars == <<argv, fs, files, fi, pc, handles, lines, i, exc, out>>

----------------------------------------------------------------------------
(* Bounds of the model. *)

MaxLen == 6
MaxSegLen == 5
MaxLines == 2
MaxArgs == 2

----------------------------------------------------------------------------
(* Characters. *)

ESC == "ESC"
NL == "\n"
CR == "\r"

Digits == {"0", "1", "2", "3", "4", "5", "6", "7", "8", "9"}

\* The character class [0-9;] of the pattern.
IsParam(c) == c \in Digits \cup {";"}

\* The slice stripped[:60] of the report line.
DisplayWidth == 60

Take(s, n) == SubSeq(s, 1, IF Len(s) < n THEN Len(s) ELSE n)

----------------------------------------------------------------------------
(* The regular expression \x1b\[[0-9;]*m.                                  *)

\* First position at or after j whose character is not in [0-9;]
\* (Len(text) + 1 when there is none): where the greedy [0-9;]* stops.
RECURSIVE ParamEnd(_, _)
ParamEnd(text, j) ==
    IF j <= Len(text) /\ IsParam(text[j]) THEN ParamEnd(text, j + 1) ELSE j

\* Variant: the pattern with [0-9;]+ in place of [0-9;]*.
MatchEndNeedsParam(text, p) ==
    IF p + 1 <= Len(text) /\ text[p] = ESC /\ text[p + 1] = "["
    THEN LET j == ParamEnd(text, p + 2)
         IN  IF j > p + 2 /\ j <= Len(text) /\ text[j] = "m" THEN j + 1 ELSE 0
    ELSE 0

\* Variant: the pattern with any final letter in place of "m".
MatchEndAnyFinal(text, p) ==
    IF p + 1 <= Len(text) /\ text[p] = ESC /\ text[p + 1] = "["
    THEN LET j == ParamEnd(text, p + 2)
         IN  IF j <= Len(text) /\ text[j] \notin {ESC, "[", NL, CR}
             THEN j + 1 ELSE 0
    ELSE 0

\* The position just after the match that starts at p, or 0 when the
\* pattern does not match at p.  The class [0-9;] does not contain "m", so
\* backtracking from the greedy run never produces a match.
MatchEnd(text, p) ==
    IF p + 1 <= Len(text) /\ text[p] = ESC /\ text[p + 1] = "["
    THEN LET j == ParamEnd(text, p + 2)
         IN  IF j <= Len(text) /\ text[j] = "m" THEN j + 1 ELSE 0
    ELSE 0

\* re.sub(pattern, '', text): one left-to-right scan; a match is dropped and
\* the scan resumes after it, any other character is copied.
RECURSIVE SubFrom(_, _)
SubFrom(text, p) ==
    IF p > Len(text) THEN <<>>
    ELSE LET e == MatchEnd(text, p)
         IN  IF e # 0 THEN SubFrom(text, e)
             ELSE <<text[p]>> \o SubFrom(text, p + 1)

strip_ansi(text) == SubFrom(text, 1)

\* len(re.findall(pattern, line)): the matches of the same scan.
RECURSIVE FindallFrom(_, _)
FindallFrom(text, p) ==
    IF p > Len(text) THEN 0
    ELSE LET e == MatchEnd(text, p)
         IN  IF e # 0 THEN 1 + FindallFrom(text, e)
             ELSE FindallFrom(text, p + 1)

CountAnsi(text) == FindallFrom(text, 1)

\* line.rstrip('\n\r')
RECURSIVE Rstrip(_)
Rstrip(line) ==
    IF Len(line) > 0 /\ line[Len(line)] \in {NL, CR}
    THEN Rstrip(SubSeq(line, 1, Len(line) - 1))
    ELSE line

----------------------------------------------------------------------------
(* The aggregation of analyze_frame.                                       *)

\* visual_widths: the visible length of every line whose stripped text is
\* not empty, in file order.
RECURSIVE VisualWidthsFrom(_, _)
VisualWidthsFrom(ls, k) ==
    IF k > Len(ls) THEN <<>>
    ELSE LET stripped == strip_ansi(Rstrip(ls[k]))
         IN  (IF stripped # <<>> THEN <<Len(stripped)>> ELSE <<>>)
             \o VisualWidthsFrom(ls, k + 1)

\* Variant: a sample for every line, also for those without visible text.
VisualWidthsAll(ls) ==
    [k \in 1..Len(ls) |-> Len(strip_ansi(Rstrip(ls[k])))]

VisualWidths(ls) == VisualWidthsFrom(ls, 1)

\* min(visual_widths) and max(visual_widths) of a non-empty list.
RECURSIVE MinOf(_)
MinOf(ws) ==
    IF Len(ws) = 1 THEN ws[1]
    ELSE LET m == MinOf(Tail(ws)) IN IF ws[1] <= m THEN ws[1] ELSE m

RECURSIVE MaxOf(_)
MaxOf(ws) ==
    IF Len(ws) = 1 THEN ws[1]
    ELSE LET m == MaxOf(Tail(ws)) IN IF ws[1] >= m THEN ws[1] ELSE m

----------------------------------------------------------------------------
(* Printed lines.                                                          *)

BlankLine == [kind |-> "blank"]
HeaderLine(f) == [kind |-> "header", file |-> f]

\* Variant: the raw length taken after stripping.
ReportLineStrippedRaw(n, line) ==
    LET stripped == strip_ansi(line)
    IN  [kind |-> "report", idx |-> n, raw |-> Len(stripped),
         visual |-> Len(stripped), ansi |-> CountAnsi(line),
         text |-> Take(stripped, DisplayWidth)]

\* Line 32: the report line of line n.
ReportLine(n, line) ==
    LET stripped == strip_ansi(line)
    IN  [kind |-> "report", idx |-> n, raw |-> Len(line),
         visual |-> Len(stripped), ansi |-> CountAnsi(line),
         text |-> Take(stripped, DisplayWidth)]
RangeLine(lo, hi) == [kind |-> "range", min |-> lo, max |-> hi]
WarnLine(d) == [kind |-> "inconsistent", diff |-> d]
OkLine == [kind |-> "consistent"]
ErrorLine(f, cause) == [kind |-> "error", file |-> f, cause |-> cause]

\* print(f"\n=== Analyzing {filename} ===\n")
HeaderPrint(f) == <<BlankLine, HeaderLine(f), BlankLine>>

\* Variant: the first and the last sample taken for the least and greatest.
VerdictPrintEnds(ws) ==
    IF ws # <<>>
    THEN LET min_width == ws[1]
             max_width == ws[Len(ws)]
         IN  <<BlankLine, RangeLine(min_width, max_width)>>
             \o (IF min_width # max_width
                 THEN <<WarnLine(max_width - min_width)>>
                 ELSE <<OkLine>>)
    ELSE <<>>

\* Variant: the blank line printed on its own, before the test of line 42.
VerdictPrintBlankFirst(ws) ==
    <<BlankLine>>
    \o (IF ws # <<>>
        THEN LET min_width == MinOf(ws)
                 max_width == MaxOf(ws)
             IN  <<RangeLine(min_width, max_width)>>
                 \o (IF min_width # max_width
                     THEN <<WarnLine(max_width - min_width)>>
                     ELSE <<OkLine>>)
        ELSE <<>>)

\* Lines 42-49: what is printed after the per-line listing.
VerdictPrint(ws) ==
    IF ws # <<>>
    THEN LET min_width == MinOf(ws)
             max_width == MaxOf(ws)
         IN  <<BlankLine, RangeLine(min_width, max_width)>>
             \o (IF min_width # max_width
                 THEN <<WarnLine(max_width - min_width)>>
                 ELSE <<OkLine>>)
    ELSE <<>>

----------------------------------------------------------------------------
(* The file system and the command line.                                   *)

Range(s) == {s[k] : k \in 1..Len(s)}
SeqsUpTo(S, n) == UNION {[1..k -> S] : k \in 0..n}

DefaultFiles == <<"data/ansi/welcome.ans", "data/ansi/goodbye.ans">>
UserPaths == {"a.ans"}
AllPaths == Range(DefaultFiles) \cup UserPaths

Missing == [kind |-> "missing", lines |-> <<>>]
Undecodable == [kind |-> "undecodable", lines |-> <<>>]
TextFile(ls) == [kind |-> "text", lines |-> ls]

\* Texts of the lines of the frame files.
Sgr31AB == <<ESC, "[", "3", "1", "m", "A", "B", ESC, "[", "0", "m">>
LineTexts == {<<>>, <<ESC, "[", "m">>, Sgr31AB, <<"C", "D">>, <<"A", "B", "C">>}

\* readlines(): every line ends with "\n", the last one only when the file
\* ends with a newline.
WithNewlines(ts) == [k \in 1..Len(ts) |-> ts[k] \o <<NL>>]
NoFinalNewline(ts) ==
    [k \in 1..Len(ts) |-> IF k = Len(ts) THEN ts[k] ELSE ts[k] \o <<NL>>]

FrameFiles ==
    {TextFile(WithNewlines(ts)) : ts \in SeqsUpTo(LineTexts, MaxLines)}
    \cup {TextFile(NoFinalNewline(ts)) :
            ts \in {t \in SeqsUpTo(LineTexts, MaxLines) :
                       Len(t) > 0 /\ t[Len(t)] # <<>>}}

\* One-line files over the alphabet of the pattern plus an ordinary character.
Alphabet == {ESC, "[", "0", ";", "m", "A"}
OneLineFiles(n) == {TextFile(<<s \o <<NL>>>>) : s \in SeqsUpTo(Alphabet, n)}

----------------------------------------------------------------------------
(* Initial states.                                                         *)

InitRest ==
    /\ files = <<>>
    /\ fi = 1
    /\ pc = "main"
    /\ handles = {}
    /\ lines = <<>>
    /\ i = 1
    /\ exc = "none"
    /\ out = <<>>

\* The file system: the paths of the run hold any of the given files or
\* fail to open or to decode; every other path does not exist.
FileSystems(used, states) ==
    {[p \in AllPaths |-> IF p \in used THEN g[p] ELSE Missing] :
        g \in [used -> states]}

\* sys.argv[1:] is any list of paths, each path any frame file or a failure.
Init ==
    /\ argv \in SeqsUpTo(UserPaths, MaxArgs)
    /\ fs \in FileSystems(Range(IF argv = <<>> THEN DefaultFiles ELSE argv),
                          {Missing, Undecodable} \cup FrameFiles)
    /\ InitRest

\* One path, whose file has one line: every string up to MaxLen.
InitLine ==
    /\ argv = <<"a.ans">>
    /\ fs \in FileSystems({"a.ans"},
                          {Missing, Undecodable} \cup OneLineFiles(MaxLen))
    /\ InitRest

\* The same, with the shorter lines whose segmentations are enumerated.
InitSeg ==
    /\ argv = <<"a.ans">>
    /\ fs \in FileSystems({"a.ans"},
                          {Missing, Undecodable} \cup OneLineFiles(MaxSegLen))
    /\ InitRest

----------------------------------------------------------------------------
(* Actions.                                                                *)

\* Variant: sys.argv[2:] in place of sys.argv[1:].
MainDropsFirst ==
    /\ pc = "main"
    /\ files' = IF Len(argv) > 1 THEN Tail(argv) ELSE DefaultFiles
    /\ fi' = 1
    /\ pc' = "open"
    /\ UNCHANGED <<argv, fs, handles, lines, i, exc, out>>

\* Line 52: the paths given, or the default pair.
Main ==
    /\ pc = "main"
    /\ files' = IF Len(argv) > 0 THEN argv ELSE DefaultFiles
    /\ fi' = 1
    /\ pc' = "open"
    /\ UNCHANGED <<argv, fs, handles, lines, i, exc, out>>

\* The for loop of line 53 moves to the next path, or the run ends.
Advance ==
    /\ fi' = fi + 1
    /\ pc' = IF fi + 1 > Len(files) THEN "done" ELSE "open"

\* Line 13: open(filename, 'r', encoding='utf-8').
Open ==
    /\ pc = "open"
    /\ IF fs[files[fi]].kind = "missing"
       THEN /\ exc' = "FileNotFoundError"
            /\ pc' = "except"
            /\ UNCHANGED handles
       ELSE /\ handles' = handles \cup {fi}
            /\ pc' = "read"
            /\ UNCHANGED exc
    /\ UNCHANGED <<argv, fs, files, fi, lines, i, out>>

\* Variant: f.close() after readlines() in place of the with block.
ReadLeaksOnError ==
    /\ pc = "read"
    /\ IF fs[files[fi]].kind = "undecodable"
       THEN /\ exc' = "UnicodeDecodeError"
            /\ pc' = "except"
            /\ UNCHANGED <<lines, handles>>
       ELSE /\ lines' = fs[files[fi]].lines
            /\ handles' = handles \ {fi}
            /\ pc' = "header"
            /\ UNCHANGED exc
    /\ UNCHANGED <<argv, fs, files, fi, i, out>>

\* Line 14 and the exit of the with block: f.readlines(), then the handle
\* is closed, also when readlines raised.
Read ==
    /\ pc = "read"
    /\ handles' = handles \ {fi}
    /\ IF fs[files[fi]].kind = "undecodable"
       THEN /\ exc' = "UnicodeDecodeError"
            /\ pc' = "except"
            /\ UNCHANGED lines
       ELSE /\ lines' = fs[files[fi]].lines
            /\ pc' = "header"
            /\ UNCHANGED exc
    /\ UNCHANGED <<argv, fs, files, fi, i, out>>

\* Line 16.
PrintHeader ==
    /\ pc = "header"
    /\ out' = out \o HeaderPrint(files[fi])
    /\ i' = 1
    /\ pc' = IF Len(lines) > 0 THEN "report" ELSE "aggregate"
    /\ UNCHANGED <<argv, fs, files, fi, handles, lines, exc>>

\* Lines 18-32: one iteration of the per-line loop.
Report ==
    /\ pc = "report"
    /\ out' = Append(out, ReportLine(i, Rstrip(lines[i])))
    /\ i' = i + 1
    /\ pc' = IF i + 1 > Len(lines) THEN "aggregate" ELSE "report"
    /\ UNCHANGED <<argv, fs, files, fi, handles, lines, exc>>

\* Lines 34-49: the width samples and the verdict; analyze_frame returns.
Aggregate ==
    /\ pc = "aggregate"
    /\ out' = out \o VerdictPrint(VisualWidths(lines))
    /\ Advance
    /\ UNCHANGED <<argv, fs, files, handles, lines, i, exc>>

\* Variant: the try around the loop, so that the first failure ends the run.
HandleErrorEndsRun ==
    /\ pc = "except"
    /\ out' = Append(out, ErrorLine(files[fi], exc))
    /\ exc' = "none"
    /\ fi' = fi + 1
    /\ pc' = "done"
    /\ UNCHANGED <<argv, fs, files, handles, lines, i>>

\* Lines 56-57: except Exception as e.
HandleError ==
    /\ pc = "except"
    /\ out' = Append(out, ErrorLine(files[fi], exc))
    /\ exc' = "none"
    /\ Advance
    /\ UNCHANGED <<argv, fs, files, handles, lines, i>>

Next ==
    \/ Main
    \/ Open
    \/ Read
    \/ PrintHeader
    \/ Report
    \/ Aggregate
    \/ HandleError

Spec == Init /\ [][Next]_vars

LineSpec == InitLine /\ [][Next]_vars

SegSpec == InitSeg /\ [][Next]_vars

----------------------------------------------------------------------------
(* Vocabulary of the properties.                                           *)

\* seg is exactly one escape sequence: ESC, "[", digits or semicolons, "m".
IsSGR(seg) ==
    /\ Len(seg) >= 3
    /\ seg[1] = ESC
    /\ seg[2] = "["
    /\ seg[Len(seg)] = "m"
    /\ \A k \in 3..(Len(seg) - 1) : IsParam(seg[k])

\* Some substring of s is an escape sequence.
HasMatch(s) ==
    \E a \in 1..Len(s) : \E b \in a..Len(s) : IsSGR(SubSeq(s, a, b))

RECURSIVE Flatten(_)
Flatten(ss) == IF ss = <<>> THEN <<>> ELSE Head(ss) \o Flatten(Tail(ss))

NotSGR(seg) == ~IsSGR(seg)

\* Every way of writing s as a concatenation of non-empty segments.
RECURSIVE Segmentations(_)
Segmentations(s) ==
    IF s = <<>> THEN {<<>>}
    ELSE UNION {{<<SubSeq(s, 1, k)>> \o rest :
                    rest \in Segmentations(SubSeq(s, k + 1, Len(s)))} :
                  k \in 1..Len(s)}

\* No escape sequence lies inside the non-pattern segments or across
\* adjacent ones.
PlainOutside(segs) ==
    \A a \in 1..Len(segs) : \A b \in a..Len(segs) :
        (\A k \in a..b : NotSGR(segs[k]))
            => ~HasMatch(Flatten(SubSeq(segs, a, b)))

\* The per-line loop has just reported line i - 1, the last line of out.
LastReported == pc \in {"report", "aggregate"} /\ i > 1
ReportedLine == Rstrip(lines[i - 1])
LastRecord == out[Len(out)]

\* What the claim of segment-wise removal says of a segmentation.
RemovesSegments(segs) ==
    /\ LastRecord.text = Flatten(SelectSeq(segs, NotSGR))
    /\ LastRecord.visual = Len(Flatten(SelectSeq(segs, NotSGR)))
    /\ LastRecord.ansi = Len(SelectSeq(segs, IsSGR))

----------------------------------------------------------------------------
(* Properties of the stripper, over every one-line file (SegSpec for the   *)
(* segmentations, LineSpec for the rest).                                  *)

\* C1 as stated: however the reported line is cut into segments, the visible
\* text is the concatenation of the segments that are not exactly an escape
\* sequence, and the escape count is the number of those that are.
C1_AnySegmentation ==
    LastReported =>
        \A segs \in Segmentations(ReportedLine) : RemovesSegments(segs)

\* C1 amended: the same, for the segmentations whose non-pattern segments
\* contain no escape sequence, neither inside one nor across adjacent ones.
C1_PlainSegmentation ==
    LastReported =>
        \A segs \in Segmentations(ReportedLine) :
            RemovesSegments(segs) \/ ~PlainOutside(segs)

C1_Witness ==
    /\ LastReported
    /\ \E segs \in Segmentations(ReportedLine) :
        /\ PlainOutside(segs)
        /\ Len(segs) = 3
        /\ IsSGR(segs[2]) /\ NotSGR(segs[1]) /\ NotSGR(segs[3])
        /\ LastRecord.ansi = 1

\* C2: stripping the visible text of a reported line again leaves it
\* unchanged.
C2_Idempotent ==
    LastReported => strip_ansi(LastRecord.text) = LastRecord.text

\* C8: a line that contains no escape sequence is reported with itself as
\* visible text, equal raw and visible lengths, and an escape count of 0.
C8_NoMatchUnchanged ==
    (LastReported /\ ~HasMatch(ReportedLine)) =>
        /\ LastRecord.text = ReportedLine
        /\ LastRecord.raw = Len(ReportedLine)
        /\ LastRecord.visual = LastRecord.raw
        /\ LastRecord.ansi = 0

\* A reported line with an unterminated or other-command sequence.
C8_Witness ==
    /\ LastReported
    /\ ~HasMatch(ReportedLine)
    /\ \E p \in 1..Len(ReportedLine) :
        /\ p + 3 <= Len(ReportedLine)
        /\ ReportedLine[p] = ESC
        /\ ReportedLine[p + 1] = "["
        /\ IsParam(ReportedLine[p + 2])
        /\ ReportedLine[p + 3] = "A"
    /\ LastRecord.text = ReportedLine

----------------------------------------------------------------------------
(* Vocabulary of the properties of a run (Spec).                           *)

\* The paths of the run, from the command line.
Paths == IF argv = <<>> THEN DefaultFiles ELSE argv

Readable(k) == fs[Paths[k]].kind = "text"
Content(k) == fs[Paths[k]].lines
Cause(k) ==
    IF fs[Paths[k]].kind = "missing" THEN "FileNotFoundError"
    ELSE "UnicodeDecodeError"

IsError(l) == l.kind = "error"
IsHeader(l) == l.kind = "header"
IsReport(l) == l.kind = "report"
IsRange(l) == l.kind = "range"
IsVerdict(l) == l.kind \in {"consistent", "inconsistent"}

\* analyze_frame has just returned from a file that was read: lines still
\* holds its lines and out ends with its report.
JustAggregated ==
    /\ pc \in {"open", "done"}
    /\ fi > 1
    /\ fi - 1 <= Len(Paths)
    /\ Readable(fi - 1)

VisibleText(k) == strip_ansi(Rstrip(lines[k]))
VisibleLines == {k \in 1..Len(lines) : VisibleText(k) # <<>>}

\* The Width Sample Set of the file just analysed.
Samples == {Len(VisibleText(k)) : k \in VisibleLines}

\* The last header printed, and what was printed after its print call.
LastHeader ==
    CHOOSE h \in 1..Len(out) :
        IsHeader(out[h]) /\ \A g \in (h + 1)..Len(out) : ~IsHeader(out[g])
Body == SubSeq(out, LastHeader + 2, Len(out))
Listing == SubSeq(Body, 1, Len(lines))
AfterListing == SubSeq(Body, Len(lines) + 1, Len(Body))

----------------------------------------------------------------------------
(* The two-line example.                                                   *)

ExampleFile == TextFile(<<Sgr31AB \o <<NL>>, <<"C", "D", NL>>>>)

ExampleRun ==
    /\ argv = <<"a.ans">>
    /\ fs["a.ans"] = ExampleFile
    /\ pc = "done"

ExampleReport(rawlen) ==
    /\ SelectSeq(out, IsReport) =
         << [kind |-> "report", idx |-> 1, raw |-> rawlen, visual |-> 2,
             ansi |-> 2, text |-> <<"A", "B">>],
            [kind |-> "report", idx |-> 2, raw |-> 2, visual |-> 2,
             ansi |-> 0, text |-> <<"C", "D">>] >>
    /\ SelectSeq(out, IsRange) = <<RangeLine(2, 2)>>
    /\ SelectSeq(out, IsVerdict) = <<OkLine>>

\* C3 as stated: the first line of the example is reported with raw length
\* 13, the second with raw length 2, both with visible length 2, with escape
\* counts 2 and 0, and the verdict is "consistent".
C3_ExampleRaw13 == ExampleRun => ExampleReport(13)

\* C3 amended: the same report, with raw length 11 for the first line.
C3_ExampleRaw11 == ExampleRun => ExampleReport(11)

C3_Witness == ExampleRun /\ Len(SelectSeq(out, IsReport)) = 2

----------------------------------------------------------------------------
(* The aggregator.                                                         *)

\* C4: when some line has visible text, the range line carries the least and
\* the greatest visible length of the lines with visible text, the warning
\* with their difference follows exactly when they differ, and the
\* confirmation follows otherwise.
C4_RangeAndVerdict ==
    (JustAggregated /\ VisibleLines # {}) =>
        /\ Len(out) >= 2
        /\ LET r == out[Len(out) - 1]
               v == out[Len(out)]
           IN  /\ IsRange(r)
               /\ r.min \in Samples /\ \A w \in Samples : r.min <= w
               /\ r.max \in Samples /\ \A w \in Samples : w <= r.max
               /\ r.min > 0
               /\ (r.min # r.max) <=> (v = WarnLine(r.max - r.min))
               /\ (r.min = r.max) <=> (v = OkLine)

C4_Witness ==
    /\ JustAggregated
    /\ Cardinality(Samples) = 2
    /\ Cardinality(VisibleLines) = 2
    /\ IsRange(out[Len(out) - 1])
    /\ out[Len(out)].kind = "inconsistent"

\* Lines whose visible text is empty.
InvisibleLines == {<<NL>>, <<ESC, "[", "m", NL>>, <<ESC, "[", "0", "m">>}

InsertAt(ls, p, e) == SubSeq(ls, 1, p) \o <<e>> \o SubSeq(ls, p + 1, Len(ls))
RemoveAt(ls, k) == SubSeq(ls, 1, k - 1) \o SubSeq(ls, k + 1, Len(ls))
HasVisibleText(l) == strip_ansi(Rstrip(l)) # <<>>

\* The file just analysed with one invisible line added or removed, or with
\* all of them removed.
Variants ==
    {InsertAt(lines, p, e) : p \in 0..Len(lines), e \in InvisibleLines}
    \cup {RemoveAt(lines, k) : k \in (1..Len(lines)) \ VisibleLines}
    \cup {SelectSeq(lines, HasVisibleText)}

\* C6: a file without visible text has each line in the listing and nothing
\* after it; and what any file prints after its listing is what it would
\* print with invisible lines added or removed.
C6_InvisibleLinesIgnored ==
    JustAggregated =>
        /\ Len(Listing) = Len(lines)
        /\ \A k \in 1..Len(lines) :
             IsReport(Listing[k]) /\ Listing[k].idx = k
        /\ VisibleLines = {} =>
             /\ AfterListing = <<>>
             /\ \A k \in 1..Len(lines) : Listing[k].visual = 0
        /\ \A ls \in Variants : VerdictPrint(VisualWidths(ls)) = AfterListing

C6_Witness ==
    /\ JustAggregated
    /\ VisibleLines = {}
    /\ lines = <<<<NL>>, <<ESC, "[", "m", NL>>>>
    /\ Len(SelectSeq(Body, IsReport)) = 2

----------------------------------------------------------------------------
(* The order of a report.                                                  *)

HeaderInPlace ==
    /\ LastHeader >= 2
    /\ out[LastHeader - 1] = BlankLine
    /\ out[LastHeader] = HeaderLine(Paths[fi - 1])
    /\ out[LastHeader + 1] = BlankLine

ListingInOrder ==
    /\ Len(Listing) = Len(lines)
    /\ \A k \in 1..Len(lines) :
        /\ IsReport(Listing[k])
        /\ Listing[k].idx = k
        /\ Listing[k].raw = Len(Rstrip(lines[k]))

RangeThenVerdict(ls) ==
    /\ Len(ls) = 2
    /\ IsRange(ls[1])
    /\ IsVerdict(ls[2])

\* C7 as stated: header, one report line per line in order, a blank line,
\* and then nothing for a blank file or the range line and one verdict line.
C7_BlankLineAlways ==
    JustAggregated =>
        /\ HeaderInPlace
        /\ ListingInOrder
        /\ Len(AfterListing) >= 1
        /\ Head(AfterListing) = BlankLine
        /\ IF VisibleLines = {} THEN Tail(AfterListing) = <<>>
           ELSE RangeThenVerdict(Tail(AfterListing))

\* C7 amended: header between two blank lines, one report line per line in
\* order, and then nothing at all for a file without visible text, or a
\* blank line, the range line and one verdict line.
C7_BlankLineWithRange ==
    JustAggregated =>
        /\ HeaderInPlace
        /\ ListingInOrder
        /\ IF VisibleLines = {} THEN AfterListing = <<>>
           ELSE /\ Len(AfterListing) = 3
                /\ Head(AfterListing) = BlankLine
                /\ RangeThenVerdict(Tail(AfterListing))

C7_Witness ==
    /\ JustAggregated
    /\ VisibleLines = {}
    /\ Len(lines) = 2
    /\ IsReport(out[Len(out)])

----------------------------------------------------------------------------
(* Failing paths and the order of the run.                                 *)

\* The error lines, headers and number of report lines owed to the first n
\* paths.
RECURSIVE ErrorsOf(_)
ErrorsOf(n) ==
    IF n = 0 THEN <<>>
    ELSE ErrorsOf(n - 1)
         \o (IF Readable(n) THEN <<>> ELSE <<ErrorLine(Paths[n], Cause(n))>>)

RECURSIVE HeadersOf(_)
HeadersOf(n) ==
    IF n = 0 THEN <<>>
    ELSE HeadersOf(n - 1)
         \o (IF Readable(n) THEN <<HeaderLine(Paths[n])>> ELSE <<>>)

RECURSIVE ReportCountOf(_)
ReportCountOf(n) ==
    IF n = 0 THEN 0
    ELSE ReportCountOf(n - 1) + (IF Readable(n) THEN Len(Content(n)) ELSE 0)

\* C5: at the end of the run every failing path has exactly its one error
\* line, in the order of the paths, and nothing else; the readable paths,
\* also those after a failing one, have their header and their report lines;
\* an error line is followed by nothing of a report but its start.
C5_ErrorLineInPlace ==
    /\ pc # "main" => SelectSeq(out, IsError) = ErrorsOf(fi - 1)
    /\ pc = "done" =>
        /\ fi = Len(Paths) + 1
        /\ SelectSeq(out, IsError) = ErrorsOf(Len(Paths))
        /\ SelectSeq(out, IsHeader) = HeadersOf(Len(Paths))
        /\ Len(SelectSeq(out, IsReport)) = ReportCountOf(Len(Paths))
        /\ Len(SelectSeq(out, IsRange)) <= Len(HeadersOf(Len(Paths)))
        /\ \A p \in 1..(Len(out) - 1) :
             IsError(out[p]) => out[p + 1].kind \in {"blank", "error"}

C5_Witness ==
    /\ pc = "done"
    /\ Len(Paths) = 2
    /\ fs[Paths[1]].kind = "undecodable"
    /\ Readable(2) /\ Len(Content(2)) = 2
    /\ IsError(out[1])
    /\ Len(SelectSeq(out, IsReport)) = 2

\* The block of output owed to path k, and the output owed to the first n.
ReportsOf(ls) == [k \in 1..Len(ls) |-> ReportLine(k, Rstrip(ls[k]))]

BlockOf(k) ==
    IF Readable(k)
    THEN HeaderPrint(Paths[k]) \o ReportsOf(Content(k))
         \o VerdictPrint(VisualWidths(Content(k)))
    ELSE <<ErrorLine(Paths[k], Cause(k))>>

RECURSIVE OutputOf(_)
OutputOf(n) == IF n = 0 THEN <<>> ELSE OutputOf(n - 1) \o BlockOf(n)

PcRank ==
    CASE pc = "main" -> 0
      [] pc = "open" -> 1
      [] pc = "read" -> 2
      [] pc = "header" -> 3
      [] pc = "report" -> 4
      [] pc = "aggregate" -> 5
      [] pc = "except" -> 6
      [] pc = "done" -> 7

\* Every step moves on: to a later path, to a later place in the same path,
\* or to a later line of the same file.
MovesOn ==
    \/ fi' > fi
    \/ fi' = fi /\ PcRank' > PcRank
    \/ fi' = fi /\ pc = "report" /\ pc' = "report" /\ i' > i

BlocksInOrder ==
    /\ fi \in 1..(Len(Paths) + 1)
    /\ pc = "done" <=> (pc # "main" /\ fi = Len(Paths) + 1)
    /\ exc # "none" => pc = "except"
    /\ pc = "report" => i <= Len(lines)
    /\ pc \in {"main", "open", "read", "header", "except", "done"}
         => out = OutputOf(fi - 1)
    /\ pc \in {"report", "aggregate"} =>
         /\ Readable(fi)
         /\ lines = Content(fi)
         /\ i \in 1..(Len(lines) + 1)
         /\ pc = "aggregate" => i = Len(lines) + 1
         /\ out = OutputOf(fi - 1) \o HeaderPrint(Paths[fi])
                    \o SubSeq(ReportsOf(lines), 1, i - 1)

\* C9: the output is always the blocks of the paths handled so far, in the
\* order of the paths, each the full report or the single error line, then
\* the lines of the current file reported so far in file order; a raised
\* exception is always at the handler; every step moves on towards the end
\* of the run, which is reached exactly when every path is done.
C9_BlockPerPathInOrder == []BlocksInOrder /\ [][MovesOn]_vars

C9_Witness ==
    /\ pc = "done"
    /\ Len(Paths) = 2
    /\ Readable(1) /\ Len(Content(1)) = 2
    /\ fs[Paths[2]].kind = "missing"
    /\ IsError(out[Len(out)])
    /\ Len(out) > 5

\* Between paths, at the end, at the handler and whenever something is
\* printed, no file is open; the only open file is the one being read.
HandlesClosed ==
    /\ Cardinality(handles) <= 1
    /\ pc \in {"main", "open", "except", "done"} => handles = {}
    /\ handles # {} => (pc = "read" /\ handles = {fi})

PrintsWhenClosed == out' # out => (handles = {} /\ handles' = {})

\* C10: at most one file is open at a time; it is closed before any output
\* of its file is printed, before the next path is opened, at the end of the
\* run, and when opening or reading it failed.
C10_HandleReleased == []HandlesClosed /\ [][PrintsWhenClosed]_vars

C10_Witness ==
    /\ pc = "except"
    /\ exc = "UnicodeDecodeError"
    /\ fi = 2
    /\ Readable(1)
    /\ handles = {}

====
